---- MODULE Spec2Model ----
(***************************************************************************)
(* The semantic vector cache of server/app/services/vector_cache.py over   *)
(* the Redis wrapper of server/app/utils/redis_client.py.                  *)
(*                                                                         *)
(* Time is counted in whole days.  A real number d / sqrt(n) (n > 0) is    *)
(* the record [d |-> d, n |-> n]: cosine similarities of integer vectors   *)
(* and rational thresholds are compared exactly in this form.  Floating-   *)
(* point rounding is not modelled.  Payloads are JSON values, so that      *)
(* json.loads(json.dumps(R)) = R.                                          *)
(*                                                                         *)
(* Store, FindSimilar, Cleanup, StoreFile and Statistics run one call from *)
(* its first line to its return.  FindBegin, FindGet and FindEnd run a     *)
(* lookup of another worker process one Redis command at a time, so that   *)
(* stores and other lookups come between its GETs and its write-back.      *)
(***************************************************************************)
EXTENDS Integers, Sequences, FiniteSets, TLC

VARIABLES
    client,   \* VectorCache.openai_client is set (an API key is configured)
    kv,       \* the Redis database: key -> [raw, exp]
    now,      \* datetime.utcnow(), in days
    last,     \* the record of the last operation that ran
    prev,     \* the record of the operation before it
    nops,     \* number of operations run so far
    lookups   \* the calls of find_similar_analysis other worker processes
              \* are in the middle of: slot -> the locals of the call

vars == <<client, kv, now, last, prev, nops, lookups>>

\* ------------------------------------------------------------------ bounds
MaxOps == 3
MaxTime == 9
MaxLookups == 2
MaxLen == 4

\* --------------------------------------------------------------- constants
TTL_DAYS == 7
MIN_CHUNK_CHARS == 50
SAMPLE_SIZE == 100
SIMILARITY_THRESHOLD_NUM == 17
SIMILARITY_THRESHOLD_DEN == 20
\* settings.vector_dimension, 1536 in the source, scaled to the length of
\* the vectors of this model
VECTOR_DIMENSION == 2
EMBEDDING_MAX_CHARS == 30000
TRUNCATION_MARKER == "..."

\* ------------------------------------------------------------ real numbers
Real(d, n) == [d |-> d, n |-> n]
Rational(p, q) == Real(p, q * q)
Zero == Real(0, 1)
Sgn(x) == IF x > 0 THEN 1 ELSE IF x < 0 THEN -1 ELSE 0

\* a > b, the comparison of two floats
Greater(a, b) ==
    IF Sgn(a.d) # Sgn(b.d) THEN Sgn(a.d) > Sgn(b.d)
    ELSE IF a.d > 0 THEN a.d * a.d * b.n > b.d * b.d * a.n
    ELSE IF a.d < 0 THEN a.d * a.d * b.n < b.d * b.d * a.n
    ELSE FALSE

\* -------------------------------------------------------------- thresholds
\* Optional[float]: None, or the rational num / den
NoThreshold == [given |-> FALSE, num |-> 0, den |-> 1]
Threshold(p, q) == [given |-> TRUE, num |-> p, den |-> q]
DefaultThreshold == Rational(SIMILARITY_THRESHOLD_NUM, SIMILARITY_THRESHOLD_DEN)

\* threshold = similarity_threshold or self.similarity_threshold
EffectiveThreshold(th) ==
    IF th.given /\ th.num # 0 THEN Rational(th.num, th.den) ELSE DefaultThreshold

\* -------------------------------------------------------------------- text
\* A text is a sequence of tokens.  The blank, the tab and the newline are
\* tokens of their own; every other token stands for the run of characters
\* it spells, none of them a whitespace character.
IsSpace(tok) == tok \in {" ", "\t", "\n"}

RECURSIVE TextLen(_)
TextLen(text) == IF text = <<>> THEN 0 ELSE Len(Head(text)) + TextLen(Tail(text))

\* str.strip()
RECURSIVE LStrip(_)
LStrip(text) ==
    IF text # <<>> /\ IsSpace(Head(text)) THEN LStrip(Tail(text)) ELSE text

RECURSIVE RStrip(_)
RStrip(text) ==
    IF text # <<>> /\ IsSpace(text[Len(text)])
    THEN RStrip(SubSeq(text, 1, Len(text) - 1)) ELSE text

Strip(text) == RStrip(LStrip(text))

\* str.startswith(prefix)
StartsWith(text, prefix) ==
    Len(text) >= Len(prefix) /\ SubSeq(text, 1, Len(prefix)) = prefix

\* sub in text
Contains(text, sub) ==
    \E i \in 1..(Len(text) - Len(sub) + 1) : SubSeq(text, i, i + Len(sub) - 1) = sub

\* text.split('\n')
RECURSIVE SplitFrom(_, _, _)
SplitFrom(text, i, line) ==
    IF i > Len(text) THEN <<line>>
    ELSE IF text[i] = "\n" THEN <<line>> \o SplitFrom(text, i + 1, <<>>)
    ELSE SplitFrom(text, i + 1, Append(line, text[i]))

Split(text) == SplitFrom(text, 1, <<>>)

\* '\n'.join(lines)
RECURSIVE Join(_)
Join(lines) ==
    IF lines = <<>> THEN <<>>
    ELSE IF Len(lines) = 1 THEN lines[1]
    ELSE lines[1] \o <<"\n">> \o Join(Tail(lines))

\* ---------------------------------------------------------------- contents
ContentA ==
    <<"def", " ", "add(a, b):", "\n",
      " ", "return a + b  # the sum of the first and the second argument">>
ContentA2 ==
    <<"def", " ", "add(x, y):", "\n",
      " ", "return x + y  # the sum of the first and the second argument">>
ContentB ==
    <<"def", " ", "sub(a, b):", "\n",
      " ", "return a - b  # the first argument minus the second argument">>
ContentC == <<"class", " ", "Queue:", "\n", " ", "pass">>
AllContents == {ContentA, ContentA2, ContentB, ContentC}
\* a text for which the provider answers with a vector of another length
\* (settings.embedding_model names a model of another dimension)
ContentW == <<"def", " ", "wide():", "\n", " ", "pass">>

\* a file of two functions, the first of 51 characters, the second of 50
ContentF ==
    <<"#!/usr/bin/python", "\n",
      "def", " ", "f():", " ", "return", " ", "'thirty-five_characters_in_quotes_'", "\n",
      "def", " ", "g():", " ", "return", " ", "'thirty-four_characters_in_quotes'">>

\* The embedding provider: a deterministic function of the text.  ContentA
\* and ContentA2 get the same vector; ContentB is at cosine 4/5 of ContentA
\* and ContentC is orthogonal to it.
EmbeddingOf(text) ==
    CASE text = ContentA -> <<5, 0>>
      [] text = ContentA2 -> <<5, 0>>
      [] text = ContentB -> <<4, 3>>
      [] text = ContentW -> <<3, 0, 4>>
      [] OTHER -> <<0, 5>>

\* --------------------------------------------------------------- JSON, ISO
Dumps(value) == <<"json", value>>
Wellformed(raw) == Len(raw) = 2 /\ raw[1] = "json"
Loads(raw) == raw[2]
Isoformat(t) == <<"iso", t>>
Fromisoformat(s) == s[2]
\* datetime.fromisoformat(s) returns: s is an ISO string
Parsable(s) == Len(s) = 2 /\ s[1] = "iso"

\* ------------------------------------------------------------------- Redis
\* the faults of one operation: the embedding call raises, KEYS raises,
\* GET raises on the keys of get, SET raises, DEL raises on the keys of del;
\* for cache_file_analysis, the embedding call and the SET raise in the
\* calls of cache_analysis_result numbered in embedAt and setAt
NoFault ==
    [embed |-> FALSE, keys |-> FALSE, get |-> {}, set |-> FALSE, del |-> {},
     embedAt |-> {}, setAt |-> {}]

Without(store, key) == [k \in DOMAIN store \ {key} |-> store[k]]

\* A key is the tuple of its segments: ":".join(parts) and key.split(':')
\* are one-to-one on segments, none of which holds a colon.
get_cache_key(parts) == parts

\* redis glob matching of a pattern whose last segment is "*"
Matches(key, pattern) ==
    /\ Len(key) >= Len(pattern)
    /\ \A i \in 1..(Len(pattern) - 1) : key[i] = pattern[i]

\* SET with NX: an existing value is kept
set_json_keep_existing(store, key, value, ex, t, fault) ==
    IF fault THEN [ok |-> FALSE, kv |-> store]
    ELSE IF key \in DOMAIN store THEN [ok |-> TRUE, kv |-> store]
    ELSE [ok |-> TRUE, kv |-> (key :> [raw |-> Dumps(value), exp |-> t + ex]) @@ store]

\* a failed SET reported as a success
set_json_lenient(store, key, value, ex, t, fault) ==
    IF fault THEN [ok |-> TRUE, kv |-> store]
    ELSE [ok |-> TRUE, kv |-> (key :> [raw |-> Dumps(value), exp |-> t + ex]) @@ store]

set_json(store, key, value, ex, t, fault) ==
    IF fault THEN [ok |-> FALSE, kv |-> store]
    ELSE [ok |-> TRUE, kv |-> (key :> [raw |-> Dumps(value), exp |-> t + ex]) @@ store]

\* Optional[Any] as a sequence: <<>> is None, <<v>> is the value v
get_json(store, key, fault) ==
    IF fault \/ key \notin DOMAIN store THEN <<>>
    ELSE IF ~Wellformed(store[key].raw) THEN <<>>
    ELSE <<Loads(store[key].raw)>>

\* DEL answers but the key stays
delete_noop(store, key, fault) ==
    IF fault THEN [ok |-> FALSE, kv |-> store]
    ELSE [ok |-> key \in DOMAIN store, kv |-> store]

delete(store, key, fault) ==
    IF fault THEN [ok |-> FALSE, kv |-> store]
    ELSE [ok |-> key \in DOMAIN store, kv |-> Without(store, key)]

\* the keys KEYS returns, as a set; the caller draws their order
keys(store, pattern, fault) ==
    IF fault THEN {} ELSE {k \in DOMAIN store : Matches(k, pattern)}

Orders(S) == {o \in [1..Cardinality(S) -> S] : \A k \in S : \E i \in DOMAIN o : o[i] = k}

\* ------------------------------------------------------- cosine similarity
RECURSIVE DotFrom(_, _, _)
DotFrom(u, v, i) == IF i > Len(u) THEN 0 ELSE u[i] * v[i] + DotFrom(u, v, i + 1)
Dot(u, v) == DotFrom(u, v, 1)

\* sklearn normalises each row by its norm, a zero norm being replaced by 1
NormSq(u) == IF Dot(u, u) = 0 THEN 1 ELSE Dot(u, u)

\* cosine_similarity([u], [v])[0][0]; raises ValueError when the
\* dimensions differ
cosine_similarity(u, v) ==
    IF Len(u) # Len(v) THEN [raised |-> TRUE, val |-> Zero]
    ELSE [raised |-> FALSE, val |-> Real(Dot(u, v), NormSq(u) * NormSq(v))]

\* ------------------------------------------------------------- VectorCache
\* sha256 of "content:analysis_type", taken to be free of collisions
generate_content_hash(content, analysis_type) == <<content, analysis_type>>

\* -------------------------------------------------------- _extract_code_chunks
NoChunks ==
    [chunks |-> <<>>, current_function |-> <<>>, current_class |-> <<>>,
     in_function |-> FALSE, in_class |-> FALSE]

Chunk(chunk_type, lines) == <<chunk_type, Join(lines)>>

StartFunction(st, line) ==
    [st EXCEPT !.chunks = IF st.current_function # <<>>
                          THEN Append(@, Chunk("function", st.current_function))
                          ELSE @,
               !.current_function = <<line>>,
               !.in_function = TRUE]

StartClass(st, line) ==
    [st EXCEPT !.chunks = IF st.current_class # <<>>
                          THEN Append(@, Chunk("class", st.current_class))
                          ELSE @,
               !.current_class = <<line>>,
               !.in_class = TRUE]

\* not line.startswith(' ') and not line.startswith('\t') and stripped
Dedented(line) ==
    /\ ~StartsWith(line, <<" ">>)
    /\ ~StartsWith(line, <<"\t">>)
    /\ Strip(line) # <<>>

PythonLine(st, line) ==
    LET stripped == Strip(line)
    IN  IF StartsWith(stripped, <<"def", " ">>) THEN StartFunction(st, line)
        ELSE IF StartsWith(stripped, <<"class", " ">>) THEN StartClass(st, line)
        ELSE IF st.in_function /\ Dedented(line)
             THEN [st EXCEPT !.chunks = Append(@, Chunk("function", st.current_function)),
                             !.current_function = <<>>,
                             !.in_function = FALSE]
        ELSE IF st.in_class /\ Dedented(line)
             THEN [st EXCEPT !.chunks = Append(@, Chunk("class", st.current_class)),
                             !.current_class = <<>>,
                             !.in_class = FALSE]
        ELSE IF st.in_function THEN [st EXCEPT !.current_function = Append(@, line)]
        ELSE IF st.in_class THEN [st EXCEPT !.current_class = Append(@, line)]
        ELSE st

JavascriptLine(st, line) ==
    LET stripped == Strip(line)
    IN  IF Contains(stripped, <<"function", " ">>) \/ Contains(stripped, <<"=>">>)
        THEN StartFunction(st, line)
        ELSE IF StartsWith(stripped, <<"class", " ">>) THEN StartClass(st, line)
        ELSE IF st.in_function /\ stripped = <<"}">>
             THEN [st EXCEPT !.chunks = Append(@, Chunk("function",
                                                  Append(st.current_function, line))),
                             !.current_function = <<>>,
                             !.in_function = FALSE]
        ELSE IF st.in_function THEN [st EXCEPT !.current_function = Append(@, line)]
        ELSE st

ChunkLine(st, line, language) ==
    IF language = "python" THEN PythonLine(st, line)
    ELSE IF language \in {"javascript", "typescript"} THEN JavascriptLine(st, line)
    ELSE st

RECURSIVE ChunkLines(_, _, _, _)
ChunkLines(st, lines, i, language) ==
    IF i > Len(lines) THEN st
    ELSE ChunkLines(ChunkLine(st, lines[i], language), lines, i + 1, language)

\* no chunk found: nothing is returned
extract_code_chunks_no_fallback(content, language) ==
    LET st == ChunkLines(NoChunks, Split(content), 1, language)
        withFunction == IF st.current_function # <<>>
                        THEN Append(st.chunks, Chunk("function", st.current_function))
                        ELSE st.chunks
    IN  IF st.current_class # <<>>
        THEN Append(withFunction, Chunk("class", st.current_class))
        ELSE withFunction

extract_code_chunks(content, language) ==
    LET st == ChunkLines(NoChunks, Split(content), 1, language)
        withFunction == IF st.current_function # <<>>
                        THEN Append(st.chunks, Chunk("function", st.current_function))
                        ELSE st.chunks
        withClass == IF st.current_class # <<>>
                     THEN Append(withFunction, Chunk("class", st.current_class))
                     ELSE withFunction
    IN  IF withClass = <<>> THEN <<<<"file", content>>>> ELSE withClass

\* text[:n]: the first n characters, the token the cut falls in being cut
RECURSIVE Take(_, _)
Take(text, n) ==
    IF n = 0 \/ text = <<>> THEN <<>>
    ELSE IF Len(Head(text)) <= n
         THEN <<Head(text)>> \o Take(Tail(text), n - Len(Head(text)))
         ELSE <<SubSeq(Head(text), 1, n)>>

\* the text is cut and no marker is appended
Truncate_no_marker(text) ==
    IF TextLen(text) > EMBEDDING_MAX_CHARS
    THEN Take(text, EMBEDDING_MAX_CHARS)
    ELSE text

\* if len(text) > 30000: text = text[:30000] + "..."
Truncate(text) ==
    IF TextLen(text) > EMBEDDING_MAX_CHARS
    THEN Take(text, EMBEDDING_MAX_CHARS) \o <<TRUNCATION_MARKER>>
    ELSE text

\* the input of embeddings.create, <<>> when the call is not made
ProviderInput(hasClient, text) ==
    IF ~hasClient THEN <<>> ELSE <<Truncate(text)>>

\* a vector is produced although the provider is unavailable
get_embedding_stale(hasClient, text, fault) ==
    EmbeddingOf(Truncate(text))

\* Optional[List[float]]: <<>> is None

get_embedding(hasClient, text, fault) ==
    IF ~hasClient THEN <<>>
    ELSE IF fault THEN <<>>
    ELSE EmbeddingOf(Truncate(text))

NoData ==
    [content_hash |-> <<>>, content_type |-> "", embedding_vector |-> <<>>,
     analysis_results |-> "None", language |-> "",
     similarity_threshold |-> DefaultThreshold, created_at |-> <<>>,
     usage_count |-> 0, last_used_at |-> <<>>]

NoMatch == [found |-> FALSE, match |-> NoData, similarity |-> Zero, from |-> <<>>]

\* an entry whose similarity cannot be computed drops the match found so far
ScanStep_reset_on_error(store, key, embedding, threshold, best, f) ==
    LET cached == get_json(store, key, key \in f.get)
    IN  IF cached = <<>> THEN best
        ELSE IF cached[1].embedding_vector = <<>> THEN best
        ELSE LET sim == cosine_similarity(embedding, cached[1].embedding_vector)
             IN  IF sim.raised THEN NoMatch
                 ELSE IF Greater(sim.val, threshold) /\ Greater(sim.val, best.similarity)
                      THEN [found |-> TRUE, match |-> cached[1],
                            similarity |-> sim.val, from |-> key]
                      ELSE best

\* one pass of the loop over cached_keys; `from` records the key the match
\* was read from
ScanStep(store, key, embedding, threshold, best, f) ==
    LET cached == get_json(store, key, key \in f.get)
    IN  IF cached = <<>> THEN best
        ELSE IF cached[1].embedding_vector = <<>> THEN best
        ELSE LET sim == cosine_similarity(embedding, cached[1].embedding_vector)
             IN  IF sim.raised THEN best
                 ELSE IF Greater(sim.val, threshold) /\ Greater(sim.val, best.similarity)
                      THEN [found |-> TRUE, match |-> cached[1],
                            similarity |-> sim.val, from |-> key]
                      ELSE best

RECURSIVE ScanFrom(_, _, _, _, _, _, _)
ScanFrom(store, order, i, embedding, threshold, best, f) ==
    IF i > Len(order) THEN best
    ELSE ScanFrom(store, order, i + 1, embedding, threshold,
                  ScanStep(store, order[i], embedding, threshold, best, f), f)

\* the payload is read from a field the entry does not have
Hit_wrong_field(store, analysis_type, language, best, f, t) ==
    LET updated == [best.match EXCEPT !.usage_count = @ + 1,
                                      !.last_used_at = Isoformat(t)]
        cache_key == get_cache_key(<<"vector", analysis_type, language,
                                     best.match.content_hash>>)
        w == set_json(store, cache_key, updated, TTL_DAYS, t, f.set)
    IN  [raised |-> FALSE, res |-> "None", kv |-> w.kv, from |-> best.from]

\* no payload is returned when the write-back fails
Hit_gated(store, analysis_type, language, best, f, t) ==
    LET updated == [best.match EXCEPT !.usage_count = @ + 1,
                                      !.last_used_at = Isoformat(t)]
        cache_key == get_cache_key(<<"vector", analysis_type, language,
                                     best.match.content_hash>>)
        w == set_json(store, cache_key, updated, TTL_DAYS, t, f.set)
    IN  [raised |-> FALSE,
         res |-> IF w.ok THEN best.match.analysis_results ELSE "None",
         kv |-> w.kv, from |-> best.from]

\* the key of the write-back names the content type where the language goes
Hit_key_by_content_type(store, analysis_type, language, best, f, t) ==
    LET updated == [best.match EXCEPT !.usage_count = @ + 1,
                                      !.last_used_at = Isoformat(t)]
        cache_key == get_cache_key(<<"vector", analysis_type, best.match.content_type,
                                     best.match.content_hash>>)
        w == set_json(store, cache_key, updated, TTL_DAYS, t, f.set)
    IN  [raised |-> FALSE, res |-> best.match.analysis_results, kv |-> w.kv,
         from |-> best.from]

\* the hit leaves last_used_at as it read it
Hit_stale_last_used(store, analysis_type, language, best, f, t) ==
    LET updated == [best.match EXCEPT !.usage_count = @ + 1]
        cache_key == get_cache_key(<<"vector", analysis_type, language,
                                     best.match.content_hash>>)
        w == set_json(store, cache_key, updated, TTL_DAYS, t, f.set)
    IN  [raised |-> FALSE, res |-> best.match.analysis_results, kv |-> w.kv,
         from |-> best.from]

\* the write-back keeps the time to live the entry has left (SET KEEPTTL)
Hit_keep_ttl(store, analysis_type, language, best, f, t) ==
    LET updated == [best.match EXCEPT !.usage_count = @ + 1,
                                      !.last_used_at = Isoformat(t)]
        cache_key == get_cache_key(<<"vector", analysis_type, language,
                                     best.match.content_hash>>)
        left == IF cache_key \in DOMAIN store THEN store[cache_key].exp - t ELSE TTL_DAYS
        w == set_json(store, cache_key, updated, left, t, f.set)
    IN  [raised |-> FALSE, res |-> best.match.analysis_results, kv |-> w.kv,
         from |-> best.from]

\* the hit writes the count back as it read it
Hit_no_increment(store, analysis_type, language, best, f, t) ==
    LET updated == [best.match EXCEPT !.last_used_at = Isoformat(t)]
        cache_key == get_cache_key(<<"vector", analysis_type, language,
                                     best.match.content_hash>>)
        w == set_json(store, cache_key, updated, TTL_DAYS, t, f.set)
    IN  [raised |-> FALSE, res |-> best.match.analysis_results, kv |-> w.kv,
         from |-> best.from]

\* the hit counts down
Hit_decrement(store, analysis_type, language, best, f, t) ==
    LET updated == [best.match EXCEPT !.usage_count = @ - 1,
                                      !.last_used_at = Isoformat(t)]
        cache_key == get_cache_key(<<"vector", analysis_type, language,
                                     best.match.content_hash>>)
        w == set_json(store, cache_key, updated, TTL_DAYS, t, f.set)
    IN  [raised |-> FALSE, res |-> best.match.analysis_results, kv |-> w.kv,
         from |-> best.from]

\* the hit branch: usage statistics, write-back, the payload
Hit(store, analysis_type, language, best, f, t) ==
    LET updated == [best.match EXCEPT !.usage_count = @ + 1,
                                      !.last_used_at = Isoformat(t)]
        cache_key == get_cache_key(<<"vector", analysis_type, language,
                                     best.match.content_hash>>)
        w == set_json(store, cache_key, updated, TTL_DAYS, t, f.set)
    IN  [raised |-> FALSE, res |-> best.match.analysis_results, kv |-> w.kv,
         from |-> best.from]

\* a miss leaves an empty entry at the key of the content looked up
find_similar_analysis_mark_miss(store, hasClient, content, analysis_type, language, th, order, f, t) ==
    IF ~hasClient THEN [raised |-> FALSE, res |-> "None", kv |-> store, from |-> <<>>]
    ELSE LET threshold == EffectiveThreshold(th)
             embedding == get_embedding(hasClient, content, f.embed)
             cache_key == get_cache_key(<<"vector", analysis_type, language,
                                          generate_content_hash(content, analysis_type)>>)
         IN  IF embedding = <<>> THEN [raised |-> FALSE, res |-> "None", kv |-> store, from |-> <<>>]
             ELSE LET best == ScanFrom(store, order, 1, embedding, threshold, NoMatch, f)
                  IN  IF best.found THEN Hit(store, analysis_type, language, best, f, t)
                      ELSE [raised |-> FALSE, res |-> "None",
                            kv |-> set_json(store, cache_key, NoData, TTL_DAYS, t, f.set).kv,
                            from |-> <<>>]

\* order is the order in which KEYS returned the partition's keys
find_similar_analysis(store, hasClient, content, analysis_type, language, th, order, f, t) ==
    IF ~hasClient THEN [raised |-> FALSE, res |-> "None", kv |-> store, from |-> <<>>]
    ELSE LET threshold == EffectiveThreshold(th)
             embedding == get_embedding(hasClient, content, f.embed)
         IN  IF embedding = <<>> THEN [raised |-> FALSE, res |-> "None", kv |-> store, from |-> <<>>]
             ELSE LET best == ScanFrom(store, order, 1, embedding, threshold, NoMatch, f)
                  IN  IF best.found THEN Hit(store, analysis_type, language, best, f, t)
                      ELSE [raised |-> FALSE, res |-> "None", kv |-> store, from |-> <<>>]

\* the pattern leaves the language out
PartitionPattern_any_language(analysis_type, language) ==
    get_cache_key(<<"vector", analysis_type, "*">>)

PartitionPattern(analysis_type, language) ==
    get_cache_key(<<"vector", analysis_type, language, "*">>)

\* the entry is written although no embedding was obtained
cache_analysis_result_unguarded(store, hasClient, content, analysis_type, language, results, content_type, f, t) ==
    LET content_hash == generate_content_hash(content, analysis_type)
        cache_entry ==
            [content_hash |-> content_hash,
             content_type |-> content_type,
             embedding_vector |-> get_embedding(hasClient, content, f.embed),
             analysis_results |-> results,
             language |-> language,
             similarity_threshold |-> DefaultThreshold,
             created_at |-> Isoformat(t),
             usage_count |-> 1,
             last_used_at |-> Isoformat(t)]
        cache_key == get_cache_key(<<"vector", analysis_type, language, content_hash>>)
        success == set_json(store, cache_key, cache_entry, TTL_DAYS, t, f.set)
    IN  [raised |-> FALSE, ok |-> success.ok, kv |-> success.kv]

\* a new entry counts hits from 0
cache_analysis_result_zero_count(store, hasClient, content, analysis_type, language, results, content_type, f, t) ==
    IF ~hasClient THEN [raised |-> FALSE, ok |-> FALSE, kv |-> store]
    ELSE LET content_hash == generate_content_hash(content, analysis_type)
             embedding == get_embedding(hasClient, content, f.embed)
         IN  IF embedding = <<>> THEN [raised |-> FALSE, ok |-> FALSE, kv |-> store]
             ELSE LET cache_entry ==
                          [content_hash |-> content_hash,
                           content_type |-> content_type,
                           embedding_vector |-> embedding,
                           analysis_results |-> results,
                           language |-> language,
                           similarity_threshold |-> DefaultThreshold,
                           created_at |-> Isoformat(t),
                           usage_count |-> 0,
                           last_used_at |-> Isoformat(t)]
                      cache_key == get_cache_key(<<"vector", analysis_type,
                                                   language, content_hash>>)
                      success == set_json(store, cache_key, cache_entry, TTL_DAYS, t, f.set)
                  IN  [raised |-> FALSE, ok |-> success.ok, kv |-> success.kv]

cache_analysis_result(store, hasClient, content, analysis_type, language, results, content_type, f, t) ==
    IF ~hasClient THEN [raised |-> FALSE, ok |-> FALSE, kv |-> store]
    ELSE LET content_hash == generate_content_hash(content, analysis_type)
             embedding == get_embedding(hasClient, content, f.embed)
         IN  IF embedding = <<>> THEN [raised |-> FALSE, ok |-> FALSE, kv |-> store]
             ELSE LET cache_entry ==
                          [content_hash |-> content_hash,
                           content_type |-> content_type,
                           embedding_vector |-> embedding,
                           analysis_results |-> results,
                           language |-> language,
                           similarity_threshold |-> DefaultThreshold,
                           created_at |-> Isoformat(t),
                           usage_count |-> 1,
                           last_used_at |-> Isoformat(t)]
                      cache_key == get_cache_key(<<"vector", analysis_type,
                                                   language, content_hash>>)
                      success == set_json(store, cache_key, cache_entry, TTL_DAYS, t, f.set)
                  IN  [raised |-> FALSE, ok |-> success.ok, kv |-> success.kv]

\* the age is compared with <= instead of <
CleanupStep_inclusive(acc, key, cutoff_date, f) ==
    LET entry == get_json(acc.kv, key, key \in f.get)
    IN  IF entry = <<>> THEN acc
        ELSE IF ~Parsable(entry[1].created_at) THEN acc
        ELSE IF Fromisoformat(entry[1].created_at) <= cutoff_date
             THEN [kv |-> delete(acc.kv, key, key \in f.del).kv, count |-> acc.count + 1]
             ELSE acc

\* the age is measured from last_used_at
CleanupStep_last_used(acc, key, cutoff_date, f) ==
    LET entry == get_json(acc.kv, key, key \in f.get)
    IN  IF entry = <<>> THEN acc
        ELSE IF entry[1].last_used_at = <<>> THEN acc
        ELSE IF Fromisoformat(entry[1].last_used_at) < cutoff_date
             THEN [kv |-> delete(acc.kv, key, key \in f.del).kv, count |-> acc.count + 1]
             ELSE acc

\* an entry without a readable created_at counts as older than any cutoff
CleanupStep_default_epoch(acc, key, cutoff_date, f) ==
    LET entry == get_json(acc.kv, key, key \in f.get)
    IN  IF entry = <<>> THEN acc
        ELSE IF ~Parsable(entry[1].created_at)
                \/ Fromisoformat(entry[1].created_at) < cutoff_date
             THEN [kv |-> delete(acc.kv, key, key \in f.del).kv, count |-> acc.count + 1]
             ELSE acc

\* one pass of the loop of cleanup_old_entries
CleanupStep(acc, key, cutoff_date, f) ==
    LET entry == get_json(acc.kv, key, key \in f.get)
    IN  IF entry = <<>> THEN acc
        ELSE IF ~Parsable(entry[1].created_at) THEN acc
        ELSE IF Fromisoformat(entry[1].created_at) < cutoff_date
             THEN [kv |-> delete(acc.kv, key, key \in f.del).kv, count |-> acc.count + 1]
             ELSE acc

RECURSIVE CleanupFrom(_, _, _, _, _)
CleanupFrom(acc, order, i, cutoff_date, f) ==
    IF i > Len(order) THEN acc
    ELSE CleanupFrom(CleanupStep(acc, order[i], cutoff_date, f), order, i + 1, cutoff_date, f)

\* the errors of Redis reach the caller
cleanup_old_entries_raising(store, days_old, order, f, t) ==
    LET swept == CleanupFrom([kv |-> store, count |-> 0], order, 1, t - days_old, f)
    IN  [raised |-> f.keys \/ f.get # {} \/ f.del # {},
         removed_count |-> swept.count, kv |-> swept.kv]

cleanup_old_entries(store, days_old, order, f, t) ==
    LET swept == CleanupFrom([kv |-> store, count |-> 0], order, 1, t - days_old, f)
    IN  [raised |-> FALSE, removed_count |-> swept.count, kv |-> swept.kv]

\* ------------------------------------------------------- cache_file_analysis
\* analysis_results is the dict as the sequence of its items
AnalysisTypes == {"style", "bug", "security", "performance"}

\* the calls of cache_analysis_result for one item: the file, then each
\* chunk of more than MIN_CHUNK_CHARS characters
RECURSIVE ChunkCalls_inclusive(_, _, _, _)
\* a chunk of exactly MIN_CHUNK_CHARS characters is cached too
ChunkCalls_inclusive(chunks, i, analysis_type, type_results) ==
    IF i > Len(chunks) THEN <<>>
    ELSE (IF TextLen(Strip(chunks[i][2])) >= MIN_CHUNK_CHARS
          THEN <<[content |-> chunks[i][2], analysis_type |-> analysis_type,
                  results |-> type_results, content_type |-> chunks[i][1]]>>
          ELSE <<>>)
         \o ChunkCalls_inclusive(chunks, i + 1, analysis_type, type_results)

RECURSIVE ChunkCalls(_, _, _, _)
ChunkCalls(chunks, i, analysis_type, type_results) ==
    IF i > Len(chunks) THEN <<>>
    ELSE (IF TextLen(Strip(chunks[i][2])) > MIN_CHUNK_CHARS
          THEN <<[content |-> chunks[i][2], analysis_type |-> analysis_type,
                  results |-> type_results, content_type |-> chunks[i][1]]>>
          ELSE <<>>)
         \o ChunkCalls(chunks, i + 1, analysis_type, type_results)

RECURSIVE FileCalls(_, _, _, _)
FileCalls(content, chunks, items, i) ==
    IF i > Len(items) THEN <<>>
    ELSE (IF items[i][1] \in AnalysisTypes
          THEN <<[content |-> content, analysis_type |-> items[i][1],
                  results |-> items[i][2], content_type |-> "file"]>>
               \o ChunkCalls(chunks, 1, items[i][1], items[i][2])
          ELSE <<>>)
         \o FileCalls(content, chunks, items, i + 1)

RECURSIVE RunCalls(_, _, _, _, _, _, _)
RunCalls(acc, calls, i, hasClient, language, f, t) ==
    IF i > Len(calls) THEN acc
    ELSE LET r == cache_analysis_result(acc.kv, hasClient, calls[i].content,
                      calls[i].analysis_type, language, calls[i].results,
                      calls[i].content_type,
                      [NoFault EXCEPT !.embed = i \in f.embedAt, !.set = i \in f.setAt], t)
         IN  RunCalls([kv |-> r.kv,
                       cached |-> IF r.ok THEN acc.cached + 1 ELSE acc.cached],
                      calls, i + 1, hasClient, language, f, t)

\* the client is not looked at before the chunks are counted
cache_file_analysis_no_guard(store, hasClient, content, language, items, f, t) ==
    LET chunks == extract_code_chunks(content, language)
        done == RunCalls([kv |-> store, cached |-> 0],
                         FileCalls(content, chunks, items, 1), 1,
                         hasClient, language, f, t)
    IN  [raised |-> FALSE,
         cached_chunks |-> done.cached,
         total_chunks |-> Len(chunks) * Len(items),
         kv |-> done.kv]

cache_file_analysis(store, hasClient, content, language, items, f, t) ==
    IF ~hasClient
    THEN [raised |-> FALSE, cached_chunks |-> 0, total_chunks |-> 0, kv |-> store]
    ELSE LET chunks == extract_code_chunks(content, language)
             done == RunCalls([kv |-> store, cached |-> 0],
                              FileCalls(content, chunks, items, 1), 1,
                              hasClient, language, f, t)
         IN  [raised |-> FALSE,
              cached_chunks |-> done.cached,
              total_chunks |-> Len(chunks) * Len(items),
              kv |-> done.kv]

\* ------------------------------------------------------ get_cache_statistics
Bump(counts, name) ==
    IF name \in DOMAIN counts THEN [counts EXCEPT ![name] = @ + 1]
    ELSE (name :> 1) @@ counts

Min(a, b) == IF a < b THEN a ELSE b

NoStats ==
    [raised |-> FALSE, error |-> FALSE, total_entries |-> 0, total_usage |-> 0, sample_size |-> 0,
     languages |-> <<>>, analysis_types |-> <<>>]

\* one pass of the loop over sample_keys; key.split(':')[2] is the third
\* segment of the key
StatisticsStep(acc, key, store, f) ==
    LET entry == get_json(store, key, key \in f.get)
    IN  IF entry = <<>> THEN acc
        ELSE [acc EXCEPT !.total_usage = @ + entry[1].usage_count,
                         !.languages = Bump(@, entry[1].language),
                         !.analysis_types = IF Len(key) >= 3 THEN Bump(@, key[3]) ELSE @]

RECURSIVE StatisticsFrom(_, _, _, _, _)
StatisticsFrom(acc, sample_keys, i, store, f) ==
    IF i > Len(sample_keys) THEN acc
    ELSE StatisticsFrom(StatisticsStep(acc, sample_keys[i], store, f),
                        sample_keys, i + 1, store, f)

\* all_keys is the list KEYS returned
get_cache_statistics(store, all_keys, f) ==
    IF all_keys = <<>> THEN NoStats
    ELSE LET sample_size == Min(SAMPLE_SIZE, Len(all_keys))
         IN  StatisticsFrom([NoStats EXCEPT !.total_entries = Len(all_keys),
                                            !.sample_size = sample_size],
                            SubSeq(all_keys, 1, sample_size), 1, store, f)

\* ------------------------------------------------------------- the history
NoOp ==
    [op |-> "none", content |-> <<>>, analysis_type |-> "", language |-> "",
     th |-> NoThreshold, results |-> "None", days |-> 0, f |-> NoFault,
     order |-> <<>>, res |-> "None", count |-> 0, from |-> <<>>, pre |-> <<>>,
     at |-> 0, items |-> <<>>, cached_chunks |-> 0, total_chunks |-> 0,
     stats |-> NoStats, raised |-> FALSE, chunks |-> <<>>,
     sent |-> <<>>, embedding |-> <<>>]

Bool(b) == IF b THEN "True" ELSE "False"

\* ------------------------------------------------------------------- input
Payloads == {"R1", "R2"}
Thresholds ==
    {NoThreshold, Threshold(0, 1), Threshold(1, 2), Threshold(-1, 2), Threshold(1, 1)}

\* the faults that can strike each operation: all of them (Fs = "any") or
\* none.  A fault is drawn only for the calls the operation goes on to make:
\* after a failed embedding call or a failed KEYS no other call is made, and
\* a key whose GET failed is not deleted.
StoreFaults(Fs) ==
    IF Fs = "none" THEN {NoFault}
    ELSE {NoFault, [NoFault EXCEPT !.embed = TRUE], [NoFault EXCEPT !.set = TRUE]}

FindFaults(Fs, store, t, l) ==
    IF Fs = "none" THEN {NoFault}
    ELSE {[NoFault EXCEPT !.embed = TRUE], [NoFault EXCEPT !.keys = TRUE]}
         \cup {[NoFault EXCEPT !.get = g, !.set = w] :
                 g \in SUBSET keys(store, PartitionPattern(t, l), FALSE),
                 w \in BOOLEAN}

CleanupFaults(Fs, store) ==
    IF Fs = "none" THEN {NoFault}
    ELSE {[NoFault EXCEPT !.keys = TRUE]}
         \cup UNION {{[NoFault EXCEPT !.get = g, !.del = d] :
                        d \in SUBSET (DOMAIN store \ g)} : g \in SUBSET DOMAIN store}

StatisticsFaults(Fs, store) ==
    IF Fs = "none" THEN {NoFault}
    ELSE {[NoFault EXCEPT !.keys = TRUE]}
         \cup {[NoFault EXCEPT !.get = g] : g \in SUBSET DOMAIN store}

\* each call of cache_analysis_result succeeds, or fails in its embedding
\* call, or fails in its SET
FileFaults(Fs, ncalls) ==
    IF Fs = "none" THEN {NoFault}
    ELSE UNION {{[NoFault EXCEPT !.embedAt = e, !.setAt = w] :
                   w \in SUBSET ((1..ncalls) \ e)} : e \in SUBSET (1..ncalls)}

\* -------------------------------------------------- lookups in progress
Lookups == 1..MaxLookups

\* the locals of one call: pc is "idle" before the call, "scan" inside the
\* loop over cached_keys (i is the next key to GET), "done" after the return
Idle ==
    [pc |-> "idle", content |-> <<>>, analysis_type |-> "", language |-> "",
     th |-> NoThreshold, embedding |-> <<>>, order |-> <<>>, i |-> 0,
     best |-> NoMatch]

\* ----------------------------------------------------------------- actions
Init ==
    /\ client \in BOOLEAN
    /\ kv = <<>>
    /\ now = 0
    /\ last = NoOp
    /\ prev = NoOp
    /\ nops = 0
    /\ lookups = [p \in Lookups |-> Idle]

Store(Cs, Ts, Ls, Fs) ==
    /\ nops < MaxOps
    /\ \E c \in Cs, t \in Ts, l \in Ls, R \in Payloads, f \in StoreFaults(Fs) :
          LET r == cache_analysis_result(kv, client, c, t, l, R, "file", f, now)
          IN  /\ kv' = r.kv
              /\ last' = [NoOp EXCEPT !.op = "store", !.content = c,
                                      !.analysis_type = t, !.language = l,
                                      !.results = R, !.f = f, !.res = Bool(r.ok),
                                      !.raised = r.raised,
                                      !.pre = kv, !.at = now]
    /\ prev' = last
    /\ nops' = nops + 1
    /\ UNCHANGED <<client, now, lookups>>

FindSimilar(Cs, Ts, Ls, Ths, Fs) ==
    /\ nops < MaxOps
    /\ \E c \in Cs, t \in Ts, l \in Ls, th \in Ths :
        \E f \in FindFaults(Fs, kv, t, l) :
        \E order \in Orders(keys(kv, PartitionPattern(t, l), f.keys)) :
          LET r == find_similar_analysis(kv, client, c, t, l, th, order, f, now)
          IN  /\ kv' = r.kv
              /\ last' = [NoOp EXCEPT !.op = "find", !.content = c,
                                      !.analysis_type = t, !.language = l,
                                      !.th = th, !.f = f, !.order = order,
                                      !.res = r.res, !.from = r.from,
                                      !.raised = r.raised,
                                      !.pre = kv, !.at = now]
    /\ prev' = last
    /\ nops' = nops + 1
    /\ UNCHANGED <<client, now, lookups>>

Cleanup(Ds, Fs) ==
    /\ nops < MaxOps
    /\ \E d \in Ds, f \in CleanupFaults(Fs, kv) :
        \E order \in Orders(keys(kv, get_cache_key(<<"vector", "*">>), f.keys)) :
          LET r == cleanup_old_entries(kv, d, order, f, now)
          IN  /\ kv' = r.kv
              /\ last' = [NoOp EXCEPT !.op = "cleanup", !.days = d, !.f = f,
                                      !.order = order, !.count = r.removed_count,
                                      !.raised = r.raised,
                                      !.pre = kv, !.at = now]
    /\ prev' = last
    /\ nops' = nops + 1
    /\ UNCHANGED <<client, now, lookups>>

StoreFile(Cs, Ls, Is, Fs) ==
    /\ nops < MaxOps
    /\ \E c \in Cs, l \in Ls, items \in Is :
        \E f \in FileFaults(Fs, Len(FileCalls(c, extract_code_chunks(c, l), items, 1))) :
          LET r == cache_file_analysis(kv, client, c, l, items, f, now)
          IN  /\ kv' = r.kv
              /\ last' = [NoOp EXCEPT !.op = "file", !.content = c, !.language = l,
                                      !.items = items, !.f = f,
                                      !.cached_chunks = r.cached_chunks,
                                      !.total_chunks = r.total_chunks,
                                      !.raised = r.raised,
                                      !.pre = kv, !.at = now]
    /\ prev' = last
    /\ nops' = nops + 1
    /\ UNCHANGED <<client, now, lookups>>

Statistics(Fs) ==
    /\ nops < MaxOps
    /\ \E f \in StatisticsFaults(Fs, kv) :
        \E order \in Orders(keys(kv, get_cache_key(<<"vector", "*">>), f.keys)) :
          LET r == get_cache_statistics(kv, order, f)
          IN  last' = [NoOp EXCEPT !.op = "statistics", !.f = f, !.order = order,
                                   !.stats = r, !.raised = r.raised,
                                   !.pre = kv, !.at = now]
    /\ prev' = last
    /\ nops' = nops + 1
    /\ UNCHANGED <<client, kv, now, lookups>>

\* a day passes; Redis drops the keys whose expiry has come
Tick ==
    /\ now < MaxTime
    /\ now' = now + 1
    /\ kv' = [k \in {x \in DOMAIN kv : kv[x].exp > now + 1} |-> kv[k]]
    /\ last' = [NoOp EXCEPT !.op = "tick", !.pre = kv, !.at = now]
    /\ prev' = last
    /\ UNCHANGED <<client, nops, lookups>>

\* the texts of at most MaxLen tokens
Alphabet == {"def", "class", "function", "=>", "}", "x", " ", "\n"}
Texts == UNION {[1..n -> Alphabet] : n \in 0..MaxLen}
Languages == {"python", "javascript", "typescript", "go"}

\* python texts of at most MaxLen lines: a class line, a method line, an
\* unindented statement, an indented statement, a def line, a blank line
PyLines ==
    {<<"class", " ", "A:">>, <<" ", "def", " ", "m():">>, <<"x">>, <<" ", "y">>,
     <<"def", " ", "f():">>, <<>>}
PyTexts == {Join(ls) : ls \in UNION {[1..n -> PyLines] : n \in 0..MaxLen}}

\* _extract_code_chunks applied to a text
Extract(Ts, Ls) ==
    /\ nops < MaxOps
    /\ \E text \in Ts, l \in Ls :
          last' = [NoOp EXCEPT !.op = "extract", !.content = text, !.language = l,
                               !.chunks = extract_code_chunks(text, l)]
    /\ prev' = last
    /\ nops' = nops + 1
    /\ UNCHANGED <<client, kv, now, lookups>>

\* s repeated n times
RECURSIVE Repeat(_, _)
Repeat(s, n) ==
    IF n = 0 THEN ""
    ELSE IF n % 2 = 0 THEN LET half == Repeat(s, n \div 2) IN half \o half
    ELSE s \o Repeat(s, n - 1)

\* texts around the character budget of the embedding call: a run of x of
\* one of the lengths, then at most two tokens
RunLengths ==
    {0, 1, EMBEDDING_MAX_CHARS - 2, EMBEDDING_MAX_CHARS - 1,
     EMBEDDING_MAX_CHARS, EMBEDDING_MAX_CHARS + 1}
Endings == UNION {[1..n -> {"a", "bc", "\n"}] : n \in 0..2}
LongTexts ==
    {(IF n = 0 THEN <<>> ELSE <<Repeat("x", n)>>) \o e : n \in RunLengths, e \in Endings}

\* _get_embedding applied to a text
Embed(Ts, Fs) ==
    /\ nops < MaxOps
    /\ \E text \in Ts, fault \in (IF Fs = "none" THEN {FALSE} ELSE BOOLEAN) :
          last' = [NoOp EXCEPT !.op = "embed", !.content = text,
                               !.f = [NoFault EXCEPT !.embed = fault],
                               !.sent = ProviderInput(client, text),
                               !.embedding = get_embedding(client, text, fault)]
    /\ prev' = last
    /\ nops' = nops + 1
    /\ UNCHANGED <<client, kv, now, lookups>>

\* What a partial write or another writer leaves at a key: a value that is
\* not JSON, or an envelope without its vector or without a readable
\* created_at.
Envelope(key, t) ==
    [content_hash |-> key[4], content_type |-> "file",
     embedding_vector |-> EmbeddingOf(key[4][1]), analysis_results |-> "R1",
     language |-> key[3], similarity_threshold |-> DefaultThreshold,
     created_at |-> Isoformat(t), usage_count |-> 1, last_used_at |-> Isoformat(t)]

Corrupted(kind, key, t) ==
    CASE kind = "undecodable" -> <<"garbage">>
      [] kind = "no_vector" -> Dumps([Envelope(key, t) EXCEPT !.embedding_vector = <<>>])
      [] kind = "no_created_at" -> Dumps([Envelope(key, t) EXCEPT !.created_at = <<>>])
      [] OTHER -> Dumps([Envelope(key, t) EXCEPT !.created_at = <<"garbage">>])

CorruptKinds == {"undecodable", "no_vector", "no_created_at", "bad_created_at"}

\* the environment leaves a corrupt value of one of the kinds at one of the
\* keys Ks
Plant(Ks, kinds) ==
    /\ \E key \in Ks, kind \in kinds :
          kv' = (key :> [raw |-> Corrupted(kind, key, now), exp |-> now + TTL_DAYS]) @@ kv
    /\ UNCHANGED <<client, now, last, prev, nops, lookups>>

\* A lookup in another worker process, one Redis command at a time.
\* FindBegin: the call up to KEYS (the guard on the client, the embedding,
\* the enumeration of the partition).
FindBegin(Cs, Ts, Ls, Ths) ==
    /\ nops < MaxOps
    /\ \E p \in Lookups, c \in Cs, t \in Ts, l \in Ls, th \in Ths :
        \E order \in Orders(keys(kv, PartitionPattern(t, l), FALSE)) :
          /\ lookups[p].pc = "idle"
          /\ \A q \in Lookups : q < p => lookups[q].pc # "idle"
          /\ LET embedding == get_embedding(client, c, FALSE)
             IN  lookups' = [lookups EXCEPT ![p] =
                    IF embedding = <<>> THEN [Idle EXCEPT !.pc = "done"]
                    ELSE [pc |-> "scan", content |-> c, analysis_type |-> t,
                          language |-> l, th |-> th, embedding |-> embedding,
                          order |-> order, i |-> 1, best |-> NoMatch]]
    /\ nops' = nops + 1
    /\ UNCHANGED <<client, kv, now, last, prev>>

\* FindGet: one pass of the loop, the GET of the next key
FindGet ==
    /\ \E p \in Lookups :
          LET s == lookups[p]
          IN  /\ s.pc = "scan" /\ s.i <= Len(s.order)
              /\ lookups' = [lookups EXCEPT ![p] =
                    [s EXCEPT !.best = ScanStep(kv, s.order[s.i], s.embedding,
                                                EffectiveThreshold(s.th), s.best, NoFault),
                              !.i = s.i + 1]]
    /\ UNCHANGED <<client, kv, now, last, prev, nops>>

\* FindEnd: after the loop, the write-back of a hit (SET) and the return
FindEnd ==
    /\ \E p \in Lookups :
          LET s == lookups[p]
              r == IF s.best.found
                   THEN Hit(kv, s.analysis_type, s.language, s.best, NoFault, now)
                   ELSE [raised |-> FALSE, res |-> "None", kv |-> kv, from |-> <<>>]
          IN  /\ s.pc = "scan" /\ s.i > Len(s.order)
              /\ kv' = r.kv
              /\ last' = [NoOp EXCEPT !.op = "find", !.content = s.content,
                                      !.analysis_type = s.analysis_type,
                                      !.language = s.language, !.th = s.th,
                                      !.order = s.order, !.res = r.res,
                                      !.from = r.from, !.raised = r.raised,
                                      !.pre = kv, !.at = now]
              /\ lookups' = [lookups EXCEPT ![p] =
                    [Idle EXCEPT !.pc = "done", !.best = s.best]]
    /\ prev' = last
    /\ UNCHANGED <<client, now, nops>>

\* ---------------------------------------------------------- specifications
\* lookups and stores in one partition, no faults, no time
Next ==
    \/ Store(AllContents, {"bug"}, {"python"}, "none")
    \/ FindSimilar(AllContents, {"bug"}, {"python"}, Thresholds, "none")

Spec == Init /\ [][Next]_vars

\* lookups and stores under every fault of the provider and of Redis
NextFault ==
    \/ Store({ContentA, ContentB}, {"bug"}, {"python"}, "any")
    \/ FindSimilar({ContentA, ContentB}, {"bug"}, {"python"},
                   {NoThreshold, Threshold(1, 2)}, "any")

SpecFault == Init /\ [][NextFault]_vars

\* every operation of the cache under every fault
NextOpen ==
    \/ Store({ContentA}, {"bug"}, {"python"}, "any")
    \/ FindSimilar({ContentA, ContentB}, {"bug"}, {"python"}, {NoThreshold}, "any")
    \/ StoreFile({ContentA, ContentC}, {"python"}, {<<<<"bug", "R1">>>>}, "any")
    \/ Statistics("any")
    \/ Cleanup({-1, 0}, "any")

SpecOpen == Init /\ [][NextOpen]_vars

\* stores and cleanup sweeps as the days pass
NextTime ==
    \/ Store({ContentA, ContentB}, {"bug"}, {"python"}, "none")
    \/ Cleanup({0, 1, 3}, "none")
    \/ Tick

SpecTime == Init /\ [][NextTime]_vars

\* lookups and stores in four partitions
NextPart ==
    \/ Store({ContentA}, {"bug", "style"}, {"python", "javascript"}, "none")
    \/ FindSimilar({ContentA}, {"bug", "style"}, {"python", "javascript"},
                   {NoThreshold}, "none")

SpecPart == Init /\ [][NextPart]_vars

\* stores, lookups and cleanup sweeps as the days pass
NextSlide ==
    \/ Store({ContentA, ContentB}, {"bug"}, {"python"}, "none")
    \/ FindSimilar({ContentA}, {"bug"}, {"python"}, {NoThreshold}, "none")
    \/ Cleanup({1, 3}, "none")
    \/ Tick

SpecSlide == Init /\ [][NextSlide]_vars

\* lookups of several worker processes interleaved with stores
NextRace ==
    \/ Store({ContentA}, {"bug"}, {"python"}, "none")
    \/ FindBegin({ContentA, ContentB}, {"bug"}, {"python"}, {NoThreshold, Threshold(1, 2)})
    \/ FindGet
    \/ FindEnd

SpecRace == Init /\ [][NextRace]_vars

\* lookups of other workers, one Redis command at a time, while entries are
\* swept and expire
NextSwept ==
    \/ Store({ContentA}, {"bug"}, {"python"}, "none")
    \/ FindBegin({ContentA}, {"bug"}, {"python"}, {NoThreshold})
    \/ FindGet
    \/ FindEnd
    \/ Cleanup({0}, "none")
    \/ Tick

SpecSwept == Init /\ [][NextSwept]_vars

\* lookups and stores with a provider whose vectors differ in length
NextDim ==
    \/ Store({ContentA, ContentB, ContentW}, {"bug"}, {"python"}, "none")
    \/ FindSimilar({ContentA, ContentW}, {"bug"}, {"python"},
                   {NoThreshold, Threshold(1, 2)}, "none")

SpecDim == Init /\ [][NextDim]_vars

\* files stored with their chunks, the provider and Redis answering
NextFile ==
    StoreFile({ContentA, ContentC, ContentF}, {"python", "go"},
              {<<<<"bug", "R1">>>>,
               <<<<"bug", "R1">>, <<"style", "R2">>>>,
               <<<<"summary", "R1">>, <<"bug", "R2">>>>}, "none")

SpecFile == Init /\ [][NextFile]_vars

\* the chunk extractor, once, on every short text
NextChunks == nops = 0 /\ Extract(Texts, Languages)

SpecChunks == Init /\ [][NextChunks]_vars

\* the chunk extractor, once, on every python text of a few lines
NextPy == nops = 0 /\ Extract(PyTexts, {"python"})

SpecPy == Init /\ [][NextPy]_vars

\* the embedding gateway, once, on every text around its character budget
NextEmbed == nops = 0 /\ Embed(LongTexts, "any")

SpecEmbed == Init /\ [][NextEmbed]_vars

\* the keys at which corrupt values are found
PlantKeys ==
    {<<"vector", "bug", "python", generate_content_hash(ContentA, "bug")>>,
     <<"vector", "bug", "python", generate_content_hash(ContentB, "bug")>>}

\* lookups over a store that held corrupt entries before the first operation
NextCorrupt ==
    \/ Store({ContentA, ContentW}, {"bug"}, {"python"}, "none")
    \/ FindSimilar({ContentA, ContentB}, {"bug"}, {"python"}, {Threshold(1, 2)}, "none")
    \/ (nops = 0 /\ Plant(PlantKeys, CorruptKinds \ {"bad_created_at"}))

SpecCorrupt == Init /\ [][NextCorrupt]_vars

\* cleanup sweeps over a store that held corrupt entries before the first
\* operation
NextSweep ==
    \/ Store({ContentA, ContentW}, {"bug"}, {"python"}, "none")
    \/ Cleanup({-1, 0}, "none")
    \/ (nops = 0 /\ Plant(PlantKeys, CorruptKinds))

SpecSweep == Init /\ [][NextSweep]_vars

\* a process without a credential: lookups, stores and file stores under
\* every fault, over a store that other writers filled before its first
\* operation
NextDisabled ==
    /\ ~client
    /\ \/ Store({ContentA}, {"bug"}, {"python"}, "any")
       \/ FindSimilar({ContentA, ContentB}, {"bug"}, {"python"}, {NoThreshold}, "any")
       \/ StoreFile({ContentA, ContentC}, {"python"}, {<<<<"bug", "R1">>>>}, "any")
       \/ (nops = 0 /\ Plant(PlantKeys, {"undecodable", "no_created_at"}))

SpecDisabled == Init /\ [][NextDisabled]_vars

\* lookups of several worker processes interleaved with one another, every
\* store before the first of them
NextHits ==
    \/ /\ \A p \in Lookups : lookups[p].pc = "idle"
       /\ Store({ContentA, ContentB}, {"bug"}, {"python"}, "none")
    \/ FindBegin({ContentA, ContentB}, {"bug"}, {"python"}, {NoThreshold, Threshold(1, 2)})
    \/ FindGet
    \/ FindEnd

SpecHits == Init /\ [][NextHits]_vars

\* ------------------------------------------------------------------ claims
KeyOf(content, analysis_type, language) ==
    get_cache_key(<<"vector", analysis_type, language,
                    generate_content_hash(content, analysis_type)>>)

KeyOfOp(o) == KeyOf(o.content, o.analysis_type, o.language)
DataAt(store, key) == Loads(store[key].raw)
PartitionOf(store, o) == keys(store, PartitionPattern(o.analysis_type, o.language), FALSE)
SameInput(a, b) ==
    /\ a.content = b.content
    /\ a.analysis_type = b.analysis_type
    /\ a.language = b.language

\* the similarity the lookup of operation o computes for the entry at key
SimilarityAt(store, o, key) ==
    cosine_similarity(EmbeddingOf(o.content), DataAt(store, key).embedding_vector).val

\* a successful store immediately followed by a lookup of the same content,
\* type and language with the default threshold, the provider available
StoreThenFind ==
    /\ prev.op = "store" /\ prev.res = "True"
    /\ last.op = "find" /\ SameInput(prev, last)
    /\ last.th = NoThreshold /\ ~last.f.embed

\* another entry of the partition is at least as similar to the query as
\* the entry just stored
Rival ==
    \E k \in PartitionOf(last.pre, last) \ {KeyOfOp(last)} :
        ~Greater(SimilarityAt(last.pre, last, KeyOfOp(last)),
                 SimilarityAt(last.pre, last, k))

\* C1 as stated: store(c, t, l, R) immediately followed by
\* find_similar(c, t, l) with the default threshold returns R, whatever
\* other entries the partition holds.
C1_RoundTrip_AnyPartition == StoreThenFind => last.res = prev.results

\* C1 amended: store(c, t, l, R) immediately followed by find_similar(c, t, l)
\* with the default threshold returns R, provided every other entry of the
\* partition is strictly less similar to c's embedding than c's own entry.
C1_RoundTrip == (StoreThenFind /\ ~Rival) => last.res = prev.results

C1_Witness ==
    /\ StoreThenFind /\ ~Rival
    /\ Cardinality(PartitionOf(last.pre, last)) >= 2
    /\ last.res = prev.results

\* the entries of the store that carry the hash and the partition of o
EntriesFor(store, o) ==
    {k \in PartitionOf(store, o) :
        DataAt(store, k).content_hash = generate_content_hash(o.content, o.analysis_type)}

\* C2: after a successful store(c, t, l, R2), also over an earlier
\* store(c, t, l, R1), exactly one entry exists for the key
\* (t, l, content_hash) and it holds R2; a lookup that follows and matches
\* that entry returns R2.
C2_Overwrite ==
    /\ (last.op = "store" /\ last.res = "True") =>
          /\ EntriesFor(kv, last) = {KeyOfOp(last)}
          /\ DataAt(kv, KeyOfOp(last)).analysis_results = last.results
    /\ (prev.op = "store" /\ prev.res = "True" /\ last.op = "find"
          /\ last.from = KeyOfOp(prev)) => last.res = prev.results

C2_Witness ==
    /\ prev.op = "store" /\ prev.res = "True" /\ prev.results = "R2"
    /\ KeyOfOp(prev) \in DOMAIN prev.pre
    /\ DataAt(prev.pre, KeyOfOp(prev)).analysis_results = "R1"
    /\ last.op = "find" /\ last.from = KeyOfOp(prev) /\ last.res = "R2"

\* the lookup of operation o found an entry
Matched(o) == o.from # <<>>

\* C3 as stated: the lookup returns an entry if and only if the maximum
\* cosine similarity over the entries of the partition strictly exceeds the
\* threshold the scan is given, and the entry returned attains the maximum.
C3_BestMatch ==
    (last.op = "find" /\ client) =>
        LET P == PartitionOf(last.pre, last)
            threshold == EffectiveThreshold(last.th)
        IN  /\ Matched(last) <=>
                  \E k \in P : Greater(SimilarityAt(last.pre, last, k), threshold)
            /\ Matched(last) =>
                  \A k \in P : ~Greater(SimilarityAt(last.pre, last, k),
                                        SimilarityAt(last.pre, last, last.from))

\* the float a caller passes as threshold
Passed(th) == Rational(th.num, th.den)

\* the lookup of the last operation, repeated on the same store, in the same
\* enumeration order, with threshold th
Again(th) ==
    find_similar_analysis(last.pre, client, last.content, last.analysis_type,
                          last.language, th, last.order, last.f, last.at)

\* C4 as stated: for thresholds t1 < t2 passed by the caller (t1 = 0
\* included), on the same query and the same store, a lookup that matches at
\* t2 also matches at t1.
C4_Monotone ==
    last.op = "find" =>
        \A t1, t2 \in {th \in Thresholds : th.given} :
            (Greater(Passed(t2), Passed(t1)) /\ Again(t2).from # <<>>)
                => Again(t1).from # <<>>

\* C5 as stated: a threshold the caller passes is the cut-off of the scan,
\* whatever its value (0 included); the default is the cut-off only when
\* none is passed.
C5_Override ==
    (last.op = "find" /\ client) =>
        LET cut == IF last.th.given THEN Passed(last.th) ELSE DefaultThreshold
        IN  last.from = ScanFrom(last.pre, last.order, 1, EmbeddingOf(last.content),
                                 cut, NoMatch, last.f).from

\* the embedding provider is unavailable to operation o: no credential is
\* configured, or the embedding call fails
ProviderDown(o) == ~client \/ o.f.embed

\* C6: with the embedding provider unavailable, find_similar returns none,
\* in every store state, and does not raise.
C6_FindUnavailable ==
    (last.op = "find" /\ ProviderDown(last)) => last.res = "None"

C6_Witness ==
    /\ last.op = "find" /\ client /\ last.f.embed /\ last.res = "None"
    /\ ~last.f.keys /\ last.f.get = {} /\ last.th = NoThreshold
    /\ KeyOfOp(last) \in DOMAIN last.pre

\* C7: with the embedding provider unavailable, store returns failure and
\* leaves the key-value store as it was; the lookup of the same content that
\* follows does not raise, and whatever it matches was in the store, with
\* the same payload, before the failed store.
C7_StoreUnavailable ==
    /\ (last.op = "store" /\ ProviderDown(last)) =>
          (last.res = "False" /\ kv = last.pre)
    /\ (prev.op = "store" /\ ProviderDown(prev) /\ last.op = "find"
          /\ SameInput(prev, last)) =>
          /\ last.res # "RAISED"
          /\ Matched(last) =>
                /\ last.from \in DOMAIN prev.pre
                /\ last.res = DataAt(prev.pre, last.from).analysis_results
          /\ ~Matched(last) => last.res = "None"

C7_Witness ==
    /\ prev.op = "store" /\ client /\ prev.f.embed /\ prev.res = "False"
    /\ last.op = "find" /\ SameInput(prev, last) /\ last.f = NoFault
    /\ KeyOfOp(prev) \notin DOMAIN last.pre
    /\ DOMAIN last.pre # {}
    /\ last.res = "None"

\* the number of calls of cache_analysis_result the operation o made
CallsOf(o) ==
    Len(FileCalls(o.content, extract_code_chunks(o.content, o.language), o.items, 1))

\* C8: under any failure of the embedding call or of a Redis operation
\* (KEYS, GET, SET, DEL) at any step, find_similar, store,
\* store_file_with_chunks, statistics and cleanup return normally and raise
\* nothing: none where the lookup could read nothing, false where the store
\* could not embed or write, zero counts where nothing could be enumerated.
C8_FailOpen ==
    /\ ~last.raised
    /\ last.op = "find" =>
          /\ last.res \in Payloads \cup {"None"}
          /\ (last.f.embed \/ last.f.keys \/ last.f.get = PartitionOf(last.pre, last))
                => (last.res = "None" /\ kv = last.pre)
    /\ last.op = "store" =>
          /\ last.res \in {"True", "False"}
          /\ (last.f.embed \/ last.f.set) => (last.res = "False" /\ kv = last.pre)
    /\ last.op = "file" =>
          /\ last.cached_chunks \in 0..CallsOf(last)
          /\ last.total_chunks >= 0
          /\ (last.f.embedAt \cup last.f.setAt = 1..CallsOf(last))
                => (last.cached_chunks = 0 /\ kv = last.pre)
    /\ last.op = "statistics" =>
          /\ ~last.stats.error
          /\ last.f.keys => last.stats = NoStats
    /\ last.op = "cleanup" =>
          /\ last.count >= 0
          /\ last.f.keys => (last.count = 0 /\ kv = last.pre)

C8_Witness ==
    /\ client
    /\ prev.op = "file" /\ prev.f.setAt # {} /\ prev.cached_chunks > 0
    /\ last.op = "cleanup" /\ last.f.del # {} /\ last.count > 0
    /\ ~last.raised

\* C9: store returns true exactly when it wrote the entry: on true the
\* entry, with usage_count 1, the payload and the 7-day TTL, is at the key
\* (analysis_type, language, content_hash) and no other key changed; on false
\* the store is as it was; a failed key-value write gives false.
C9_StoreResult ==
    last.op = "store" =>
        /\ last.res = "True" =>
              /\ KeyOfOp(last) \in DOMAIN kv
              /\ kv[KeyOfOp(last)].exp = last.at + TTL_DAYS
              /\ DataAt(kv, KeyOfOp(last)).usage_count = 1
              /\ DataAt(kv, KeyOfOp(last)).analysis_results = last.results
              /\ DataAt(kv, KeyOfOp(last)).created_at = Isoformat(last.at)
              /\ Without(kv, KeyOfOp(last)) = Without(last.pre, KeyOfOp(last))
        /\ last.res = "False" => kv = last.pre
        /\ last.f.set => last.res = "False"

C9_Witness ==
    /\ last.op = "store" /\ client /\ last.f.set /\ ~last.f.embed
    /\ last.res = "False"
    /\ KeyOfOp(last) \in DOMAIN kv
    /\ DataAt(kv, KeyOfOp(last)).analysis_results # last.results

\* the write time of the entry at key
CreatedAt(store, key) == Fromisoformat(DataAt(store, key).created_at)

\* C10: cleanup(days), run alone and without a store failure, removes
\* exactly the entries with created_at < now - days: each of them is absent
\* afterwards, every other entry is present with its fields and its TTL
\* unchanged, and no entry is added.
C10_CleanupExact ==
    (last.op = "cleanup" /\ last.f = NoFault) =>
        /\ DOMAIN kv \subseteq DOMAIN last.pre
        /\ \A k \in DOMAIN last.pre :
              IF CreatedAt(last.pre, k) < last.at - last.days
              THEN k \notin DOMAIN kv
              ELSE k \in DOMAIN kv /\ kv[k] = last.pre[k]

C10_Witness ==
    /\ last.op = "cleanup"
    /\ \E k \in DOMAIN last.pre : k \notin DOMAIN kv
    /\ \E k \in DOMAIN last.pre : k \in DOMAIN kv

\* two cleanup sweeps in succession with the same days_old at the same time,
\* the first of them having met no failure of Redis
CleanupTwice ==
    /\ prev.op = "cleanup" /\ last.op = "cleanup"
    /\ prev.days = last.days /\ prev.at = last.at
    /\ prev.f = NoFault

\* C11: cleanup is idempotent: of two sweeps run in succession with the same
\* cutoff and nothing in between, the second leaves the store as the first
\* left it and returns 0.
C11_CleanupIdempotent == CleanupTwice => (kv = last.pre /\ last.count = 0)

C11_Witness ==
    /\ CleanupTwice
    /\ prev.count > 0 /\ DOMAIN last.pre # DOMAIN prev.pre
    /\ last.count = 0

\* the entries the sweep of operation o removed from the store
RemovedBy(o, after) == DOMAIN o.pre \ DOMAIN after

\* C12 as stated: the count cleanup returns is the number of entries the
\* call removed from the store; an entry whose delete failed is not counted.
C12_CountRemoved ==
    last.op = "cleanup" => last.count = Cardinality(RemovedBy(last, kv))

\* the entry at key is the envelope a store of the key's analysis type and
\* language wrote: its language and its hash are those of the key, and its
\* payload is a payload some store was given
WrittenUnder(store, key) ==
    /\ DataAt(store, key).language = key[3]
    /\ DataAt(store, key).content_hash = key[4]
    /\ key[4][2] = key[2]
    /\ DataAt(store, key).analysis_results \in Payloads

\* C13: every value other than none that find_similar(c, t, l) returns is
\* the analysis_results payload of an entry a store wrote under the
\* partition (t, l): never a payload of another analysis type or language,
\* never the entry envelope.
C13_PartitionIsolation ==
    /\ \A k \in DOMAIN kv : WrittenUnder(kv, k)
    /\ (last.op = "find" /\ last.res # "None") =>
          /\ last.from \in DOMAIN last.pre
          /\ last.from[2] = last.analysis_type
          /\ last.from[3] = last.language
          /\ last.res = DataAt(last.pre, last.from).analysis_results
          /\ last.res \in Payloads

C13_Witness ==
    /\ last.op = "find" /\ last.res \in Payloads
    /\ \E k \in DOMAIN last.pre :
          /\ k[2] = last.analysis_type /\ k[3] # last.language
          /\ DataAt(last.pre, k).analysis_results # last.res

UsageAt(store, key) == DataAt(store, key).usage_count

\* C14: in every reachable state, after any sequence of store, find_similar
\* (hit or miss) and cleanup operations, every entry of the store has
\* usage_count >= 1.
C14_UsagePositive == \A k \in DOMAIN kv : UsageAt(kv, k) >= 1

C14_Witness ==
    /\ prev.op = "find" /\ Matched(prev)
    /\ last.op = "cleanup" /\ last.count = 0
    /\ \E k \in DOMAIN kv : UsageAt(kv, k) >= 2

\* the usage_count of no entry that the last operation found and left in
\* the store went down
NoDecrease ==
    \A k \in DOMAIN kv \cap DOMAIN last.pre : UsageAt(kv, k) >= UsageAt(last.pre, k)

\* C15 as stated: while an entry exists at a key its usage_count never
\* decreases from one state to the next, across hits, stores to that key
\* and cleanup sweeps.
C15_Monotone == NoDecrease

\* C15 amended: while an entry exists at a key its usage_count never
\* decreases across hits that run without interleaving, cleanup sweeps and
\* statistics; a store to the key starts the count again at 1.
C15_MonotoneHits ==
    /\ last.op \notin {"store", "file"} => NoDecrease
    /\ (last.op = "store" /\ last.res = "True") => UsageAt(kv, KeyOfOp(last)) = 1

C15_Witness ==
    /\ prev.op = "find" /\ Matched(prev)
    /\ last.op = "find" /\ last.from = prev.from /\ last.f = NoFault
    /\ UsageAt(kv, last.from) = 3 /\ UsageAt(last.pre, last.from) = 2

PayloadAt(store, key) == DataAt(store, key).analysis_results

\* C16 as stated: the analysis_results at a key change only through a store
\* to that key: in every interleaving of lookups and stores, the write-back
\* of a hit leaves the payload of every entry as the last completed store
\* wrote it.
C16_PayloadStable ==
    last.op = "find" =>
        \A k \in DOMAIN kv \cap DOMAIN last.pre : PayloadAt(kv, k) = PayloadAt(last.pre, k)

\* the lookups that have returned after a hit on the entry at key
HitsOn(key) ==
    {p \in Lookups : /\ lookups[p].pc = "done"
                     /\ lookups[p].best.found
                     /\ lookups[p].best.from = key}

\* the usage_count each of them read
CountsRead(key) == {lookups[p].best.match.usage_count : p \in HitsOn(key)}

\* the usage_count of the entry before the first of them: the least count read
InitialUsage(key) == CHOOSE u \in CountsRead(key) : \A v \in CountsRead(key) : u <= v

\* C18: after n concurrent hits on one entry, no store to its key
\* intervening, its usage_count is at least initial + 1 and at most
\* initial + n.
C18_LostUpdatesBounded ==
    \A k \in DOMAIN kv :
        HitsOn(k) # {} =>
            /\ UsageAt(kv, k) >= InitialUsage(k) + 1
            /\ UsageAt(kv, k) <= InitialUsage(k) + Cardinality(HitsOn(k))

\* two hits that both read before either wrote: the count is initial + 1
C18_Witness ==
    \E k \in DOMAIN kv :
        /\ Cardinality(HitsOn(k)) = 2
        /\ \A p \in Lookups : lookups[p].pc = "done"
        /\ UsageAt(kv, k) = InitialUsage(k) + 1

LastUsedAt(store, key) == Fromisoformat(DataAt(store, key).last_used_at)

\* a lookup that hit, run without interleaving, its write-back not failing
HitRan(o) == o.op = "find" /\ Matched(o) /\ ~o.f.set

\* C17: a find_similar call that hits entry E and runs without interleaving
\* leaves E with usage_count one higher than before, last_used_at the time
\* of the hit and the TTL reset to the full 7 days, and changes nothing
\* else; n hits in a row with no store in between leave usage_count =
\* initial + n.
C17_HitSideEffect ==
    /\ HitRan(last) =>
          /\ last.from \in DOMAIN last.pre /\ last.from \in DOMAIN kv
          /\ DataAt(kv, last.from) =
                [DataAt(last.pre, last.from) EXCEPT !.usage_count = @ + 1,
                                                    !.last_used_at = Isoformat(last.at)]
          /\ kv[last.from].exp = last.at + TTL_DAYS
          /\ Without(kv, last.from) = Without(last.pre, last.from)
    /\ (HitRan(prev) /\ HitRan(last) /\ last.from = prev.from) =>
          UsageAt(kv, last.from) = UsageAt(prev.pre, prev.from) + 2

C17_Witness ==
    /\ HitRan(prev) /\ HitRan(last) /\ last.from = prev.from
    /\ prev.pre[prev.from].exp < prev.at + TTL_DAYS
    /\ UsageAt(kv, last.from) = 3
    /\ LastUsedAt(kv, last.from) > CreatedAt(kv, last.from)

\* C19: the TTL slides: every entry of the store expires one full window
\* (7 days) after its last store or hit, so an entry neither hit nor
\* re-stored for a full window is gone, no lookup returns it, and an entry
\* that is hit before each window ends stays.
C19_SlidingTTL ==
    /\ \A k \in DOMAIN kv :
          /\ kv[k].exp = LastUsedAt(kv, k) + TTL_DAYS
          /\ now < LastUsedAt(kv, k) + TTL_DAYS
    /\ (last.op = "find" /\ Matched(last)) =>
          /\ last.from \in DOMAIN last.pre
          /\ last.at < LastUsedAt(last.pre, last.from) + TTL_DAYS

\* an entry still in the store after the window of its creation has ended
C19_Witness ==
    \E k \in DOMAIN kv :
        /\ now >= CreatedAt(kv, k) + TTL_DAYS
        /\ UsageAt(kv, k) >= 2

\* C20: a hit never changes created_at, and cleanup(max_age_days) removes
\* every entry created more than max_age_days ago whatever its hits and
\* however recently its TTL was renewed.
C20_AgeCleanup ==
    /\ (last.op = "find" /\ Matched(last)) =>
          CreatedAt(kv, last.from) = CreatedAt(last.pre, last.from)
    /\ last.op = "cleanup" =>
          \A k \in DOMAIN last.pre :
              CreatedAt(last.pre, k) < last.at - last.days => k \notin DOMAIN kv

\* the sweep removed an entry that had been hit and whose last use is not
\* older than the cutoff
C20_Witness ==
    /\ last.op = "cleanup"
    /\ \E k \in DOMAIN last.pre \ DOMAIN kv :
          /\ UsageAt(last.pre, k) >= 2
          /\ last.pre[k].exp > CreatedAt(last.pre, k) + TTL_DAYS
          /\ LastUsedAt(last.pre, k) >= last.at - last.days

\* C21: in every reachable state the entry stored at key vector:<t>:<l>:<h>
\* has content_hash = h and language = l, so that no two entries share a
\* key (analysis_type, language, content_hash); the write-back of a hit
\* writes the key the entry was read from and creates no other key.
C21_KeyAgreement ==
    /\ \A k \in DOMAIN kv :
          /\ Len(k) = 4 /\ k[1] = "vector"
          /\ DataAt(kv, k).content_hash = k[4]
          /\ DataAt(kv, k).language = k[3]
          /\ k = KeyOf(k[4][1], k[2], k[3])
    /\ (last.op = "find" /\ Matched(last)) =>
          /\ DOMAIN kv = DOMAIN last.pre
          /\ kv[last.from] # last.pre[last.from]
          /\ Without(kv, last.from) = Without(last.pre, last.from)

C21_Witness ==
    /\ last.op = "find" /\ Matched(last)
    /\ Cardinality(DOMAIN kv) >= 2
    /\ UsageAt(kv, last.from) = UsageAt(last.pre, last.from) + 1

\* C22 as stated: every entry store writes has an embedding_vector of the
\* configured vector dimension, whatever vector the provider returns.
C22_VectorDimension ==
    \A k \in DOMAIN kv : Len(DataAt(kv, k).embedding_vector) = VECTOR_DIMENSION

\* the entry at key cannot take part in the lookup of operation o: it does
\* not deserialize, it has no vector, or its vector has another length than
\* the embedding of the query
Unusable(store, o, key) ==
    \/ ~Wellformed(store[key].raw)
    \/ DataAt(store, key).embedding_vector = <<>>
    \/ Len(DataAt(store, key).embedding_vector) # Len(EmbeddingOf(o.content))

UnusableIn(store, o) == {k \in PartitionOf(store, o) : Unusable(store, o, k)}

Restrict(store, ks) == [k \in ks |-> store[k]]

\* the lookup of operation o on its store without the unusable entries of
\* the partition, the other keys enumerated in the same order
OnUsable(o) ==
    LET bad == UnusableIn(o.pre, o)
    IN  find_similar_analysis(Restrict(o.pre, DOMAIN o.pre \ bad), client, o.content,
                              o.analysis_type, o.language, o.th,
                              SelectSeq(o.order, LAMBDA k : k \notin bad), o.f, o.at)

\* C23: entries that fail to deserialize, lack an embedding vector or hold a
\* vector of another length do not affect a lookup: wherever they fall in
\* the enumeration, find_similar returns what it returns on the partition
\* without them, matches the same entry, and leaves them as they were.
C23_CorruptSkipped ==
    last.op = "find" =>
        /\ last.res = OnUsable(last).res
        /\ last.from = OnUsable(last).from
        /\ kv = OnUsable(last).kv @@ Restrict(last.pre, UnusableIn(last.pre, last))

C23_Witness ==
    /\ last.op = "find" /\ Matched(last)
    /\ Len(last.order) >= 2
    /\ last.order[1] = last.from
    /\ \E k \in UnusableIn(last.pre, last) : ~Wellformed(last.pre[k].raw)
    /\ \E k \in UnusableIn(last.pre, last) : Wellformed(last.pre[k].raw)

\* the entry at key deserializes and has a created_at that parses
Dated(store, key) ==
    Wellformed(store[key].raw) /\ Parsable(DataAt(store, key).created_at)

OldIn(store, o) ==
    {k \in DOMAIN store : Dated(store, k) /\ CreatedAt(store, k) < o.at - o.days}

\* C24: corrupt entries do not abort cleanup: with entries that fail to
\* deserialize or have a missing or unparsable created_at in the store, in
\* any enumeration order, cleanup removes every valid entry older than the
\* cutoff, leaves every other entry, the corrupt ones included, in place,
\* and returns the number of valid entries it removed.
C24_CleanupSkipsCorrupt ==
    last.op = "cleanup" =>
        /\ kv = Restrict(last.pre, DOMAIN last.pre \ OldIn(last.pre, last))
        /\ last.count = Cardinality(OldIn(last.pre, last))

C24_Witness ==
    /\ last.op = "cleanup" /\ last.count >= 1
    /\ \E k \in DOMAIN kv : ~Wellformed(kv[k].raw)
    /\ \E k \in DOMAIN kv : Wellformed(kv[k].raw) /\ ~Parsable(DataAt(kv, k).created_at)
    /\ Dated(last.pre, last.order[Len(last.order)])

\* a line of the text opens a function or a class in the language
Opens(line, language) ==
    LET stripped == Strip(line)
    IN  \/ /\ language = "python"
           /\ \/ StartsWith(stripped, <<"def", " ">>)
              \/ StartsWith(stripped, <<"class", " ">>)
        \/ /\ language \in {"javascript", "typescript"}
           /\ \/ Contains(stripped, <<"function", " ">>)
              \/ Contains(stripped, <<"=>">>)
              \/ StartsWith(stripped, <<"class", " ">>)

HasBoundary(text, language) ==
    \E i \in 1..Len(Split(text)) : Opens(Split(text)[i], language)

\* C25: for an empty input, an input without a function or class boundary
\* and any input in a language other than python, javascript or typescript
\* the extractor returns the one pair (file, full_text); it returns a file
\* pair in that case only, and never an empty sequence.
C25_ExtractorFallback ==
    last.op = "extract" =>
        /\ last.chunks # <<>>
        /\ ~HasBoundary(last.content, last.language) =>
              last.chunks = <<<<"file", last.content>>>>
        /\ HasBoundary(last.content, last.language) =>
              \A i \in 1..Len(last.chunks) : last.chunks[i][1] \in {"function", "class"}

C25_Witness ==
    /\ last.op = "extract" /\ last.language = "go"
    /\ HasBoundary(last.content, "python")
    /\ last.chunks = <<<<"file", last.content>>>>

\* the items of the results of operation o whose key is an analysis type
TypedItems(o) == {i \in 1..Len(o.items) : o.items[i][1] \in AnalysisTypes}

\* C26 as stated: store_file_with_chunks, the provider available and the
\* store healthy, leaves for each analysis type in its results a whole-file
\* entry in partition (type, language): content_type file, payload
\* results[type].
C26_WholeFileEntry ==
    (last.op = "file" /\ client) =>
        \A i \in TypedItems(last) :
            LET k == KeyOf(last.content, last.items[i][1], last.language)
            IN  /\ k \in DOMAIN kv
                /\ DataAt(kv, k).content_type = "file"
                /\ PayloadAt(kv, k) = last.items[i][2]

\* the chunks the extractor finds in the file of operation o
ChunksOf(o) == extract_code_chunks(o.content, o.language)
Long(text) == TextLen(Strip(text)) > MIN_CHUNK_CHARS

\* the keys of the whole-file entries and of the chunks of more than 50
\* characters
KeysWritten(o) ==
    {KeyOf(o.content, o.items[i][1], o.language) : i \in TypedItems(o)}
    \cup {KeyOf(ChunksOf(o)[j][2], o.items[i][1], o.language) :
             i \in TypedItems(o), j \in {n \in 1..Len(ChunksOf(o)) : Long(ChunksOf(o)[n][2])}}

\* C27: store_file_with_chunks stores a chunk entry exactly for the chunks
\* whose trimmed length exceeds 50 characters: each of them is stored with
\* the payload of its analysis type and its own content_type, one of
\* function, class and file, and no key is written but theirs and the
\* whole file's, so that a chunk of 50 characters or less adds no entry.
C27_ChunkEntries ==
    (last.op = "file" /\ client) =>
        /\ \A i \in TypedItems(last), j \in 1..Len(ChunksOf(last)) :
              Long(ChunksOf(last)[j][2]) =>
                LET k == KeyOf(ChunksOf(last)[j][2], last.items[i][1], last.language)
                IN  /\ k \in DOMAIN kv
                    /\ PayloadAt(kv, k) = last.items[i][2]
                    /\ DataAt(kv, k).content_type = ChunksOf(last)[j][1]
                    /\ DataAt(kv, k).content_type \in {"function", "class", "file"}
        /\ DOMAIN kv = DOMAIN last.pre \cup KeysWritten(last)
        /\ \A k \in DOMAIN last.pre \ KeysWritten(last) : kv[k] = last.pre[k]

\* the file of two functions: the one of 51 characters has its entry, the
\* one of 50 has none
C27_Witness ==
    /\ last.op = "file" /\ client /\ last.content = ContentF
    /\ last.language = "python" /\ Len(last.items) = 2
    /\ Len(ChunksOf(last)) = 2
    /\ TextLen(Strip(ChunksOf(last)[1][2])) = MIN_CHUNK_CHARS + 1
    /\ TextLen(Strip(ChunksOf(last)[2][2])) = MIN_CHUNK_CHARS
    /\ KeyOf(ChunksOf(last)[1][2], "bug", "python") \in DOMAIN kv
    /\ KeyOf(ChunksOf(last)[2][2], "bug", "python") \notin DOMAIN kv

\* the store with other usage statistics in every entry
Reused(store) ==
    [k \in DOMAIN store |->
        [store[k] EXCEPT !.raw = Dumps([Loads(@) EXCEPT !.usage_count = @ + 3,
                                                        !.last_used_at = Isoformat(now + 1)])]]

\* C28: a hit returns its payload whatever becomes of the write-back: when
\* the SET of usage_count, last_used_at and the TTL fails, find_similar
\* still returns the analysis_results of the matched entry, and the value
\* returned is the same for other values of usage_count and last_used_at.
C28_HitDespiteWriteFailure ==
    (last.op = "find" /\ Matched(last)) =>
        /\ last.res = PayloadAt(last.pre, last.from)
        /\ last.f.set => kv = last.pre
        /\ last.res = find_similar_analysis(Reused(last.pre), client, last.content,
                            last.analysis_type, last.language, last.th, last.order,
                            last.f, last.at).res

C28_Witness ==
    /\ last.op = "find" /\ Matched(last) /\ last.f.set
    /\ last.res \in Payloads
    /\ UsageAt(kv, last.from) = UsageAt(last.pre, last.from)

\* C29: with no provider credential configured caching is disabled end to
\* end: find_similar returns none, store returns false and
\* store_file_with_chunks returns {cached_chunks: 0, total_chunks: 0},
\* whatever the store holds and whatever fails, none of them raises and
\* none writes the key-value store.
C29_Disabled ==
    ~client =>
        /\ ~last.raised
        /\ last.op \in {"find", "store", "file"} => kv = last.pre
        /\ last.op = "find" => (last.res = "None" /\ last.from = <<>>)
        /\ last.op = "store" => last.res = "False"
        /\ last.op = "file" => (last.cached_chunks = 0 /\ last.total_chunks = 0)

\* without a credential, a lookup of a text whose entry is in the store,
\* then a file store
C29_Witness ==
    /\ ~client
    /\ prev.op = "find" /\ prev.f = NoFault
    /\ KeyOfOp(prev) \in DOMAIN prev.pre /\ Wellformed(prev.pre[KeyOfOp(prev)].raw)
    /\ last.op = "file" /\ last.f = NoFault /\ CallsOf(last) >= 2
    /\ last.total_chunks = 0

\* the entries statistics sampled and could read, as positions of the list
\* KEYS returned
SampledIn(op) ==
    {i \in 1..op.stats.sample_size :
        get_json(op.pre, op.order[i], op.order[i] \in op.f.get) # <<>>}

CountBy(op, Seg(_)) ==
    LET names == {Seg(i) : i \in SampledIn(op)}
    IN  [n \in names |-> Cardinality({i \in SampledIn(op) : Seg(i) = n})]

RECURSIVE SumOf(_)
SumOf(counts) ==
    IF DOMAIN counts = {} THEN 0
    ELSE LET n == CHOOSE x \in DOMAIN counts : TRUE
         IN  counts[n] + SumOf([m \in DOMAIN counts \ {n} |-> counts[m]])

\* C30: statistics maps each analysis type to the number of sampled entries
\* stored under that analysis type (the analysis_type segment of their key)
\* and each language to the number of sampled entries of that language, and
\* each breakdown sums to at most min(100, total_entries)
C30_Breakdowns ==
    (last.op = "statistics" /\ ~last.stats.error /\ last.stats.total_entries > 0) =>
        LET TypeOf(i) == last.order[i][2]
            LanguageOf(i) == get_json(last.pre, last.order[i], FALSE)[1].language
        IN  /\ last.stats.analysis_types = CountBy(last, TypeOf)
            /\ last.stats.languages = CountBy(last, LanguageOf)
            /\ SumOf(last.stats.analysis_types)
                   <= Min(SAMPLE_SIZE, last.stats.total_entries)
            /\ SumOf(last.stats.languages)
                   <= Min(SAMPLE_SIZE, last.stats.total_entries)

\* the language breakdown alone, which the code computes as stated
C30_LanguagesOnly ==
    (last.op = "statistics" /\ ~last.stats.error /\ last.stats.total_entries > 0) =>
        LET LanguageOf(i) == get_json(last.pre, last.order[i], FALSE)[1].language
        IN  /\ last.stats.languages = CountBy(last, LanguageOf)
            /\ SumOf(last.stats.languages)
                   <= Min(SAMPLE_SIZE, last.stats.total_entries)

\* the characters of a text, as one string
RECURSIVE Flat(_)
Flat(text) == IF text = <<>> THEN "" ELSE Head(text) \o Flat(Tail(text))

\* C31: the text sent to the provider is the input when the input has at
\* most 30000 characters and otherwise its first 30000 characters followed
\* by the truncation marker; the gateway returns unavailable, without
\* raising, whenever no credential is configured or the provider call fails
C31_Truncation ==
    last.op = "embed" =>
        /\ ~last.raised
        /\ (~client \/ last.f.embed) => last.embedding = <<>>
        /\ ~client => last.sent = <<>>
        /\ client =>
              /\ Len(last.sent) = 1
              /\ Flat(last.sent[1]) =
                    IF Len(Flat(last.content)) <= 30000 THEN Flat(last.content)
                    ELSE SubSeq(Flat(last.content), 1, 30000) \o "..."

\* a text of 30002 characters whose last token the cut falls in
C31_Witness ==
    /\ last.op = "embed" /\ client /\ ~last.f.embed
    /\ Len(Flat(last.content)) = 30002
    /\ last.content[Len(last.content)] = "bc"
    /\ Len(Flat(last.sent[1])) = 30003
    /\ last.embedding # <<>>

\* the fields of an entry a hit is not to touch
FrozenFields(data) ==
    <<data.content_hash, data.content_type, data.embedding_vector,
      data.analysis_results, data.language, data.similarity_threshold,
      data.created_at>>

\* C32: a find_similar call that hits entry E changes only E's usage_count,
\* last_used_at and TTL: the other fields of E are unchanged and no other
\* entry of any partition is created, modified or deleted
C32_HitFrame ==
    (last.op = "find" /\ last.from # <<>>) =>
        /\ DOMAIN kv \ {last.from} = DOMAIN last.pre \ {last.from}
        /\ \A k \in DOMAIN kv \ {last.from} : kv[k] = last.pre[k]
        /\ (last.from \in DOMAIN kv /\ last.from \in DOMAIN last.pre) =>
              FrozenFields(DataAt(kv, last.from)) = FrozenFields(DataAt(last.pre, last.from))

\* C33: a find_similar call that returns none (miss, provider unavailable or
\* store failure) and every statistics call leave the store exactly as it
\* was: no entry is created, modified or deleted and no TTL is changed
C33_ReadOnly ==
    ((last.op = "find" /\ last.res = "None") \/ last.op = "statistics") =>
        kv = last.pre

\* a lookup that scanned a stored entry and missed, then statistics over it
C33_Witness ==
    /\ client
    /\ prev.op = "find" /\ prev.res = "None" /\ prev.f = NoFault
    /\ PartitionOf(prev.pre, prev) # {}
    /\ last.op = "statistics" /\ last.stats.total_entries > 0
    /\ kv = prev.pre

\* the entries of the partition of lookup o that attain the maximum
\* similarity to its query
Tops(o) ==
    LET P == PartitionOf(o.pre, o)
    IN  {k \in P : \A j \in P : ~Greater(SimilarityAt(o.pre, o, j),
                                          SimilarityAt(o.pre, o, k))}

\* the entry of the set S that KEYS enumerated first
FirstOf(order, S) ==
    order[CHOOSE i \in DOMAIN order :
              order[i] \in S /\ \A j \in 1..(i - 1) : order[j] \notin S]

\* several entries share the maximum similarity and it exceeds the threshold
TieAbove(o) ==
    /\ o.op = "find" /\ client /\ o.f = NoFault
    /\ Cardinality(Tops(o)) >= 2
    /\ \E k \in Tops(o) : Greater(SimilarityAt(o.pre, o, k), EffectiveThreshold(o.th))

\* the lookup returned the first enumerated of the entries at the maximum
\* and updated that entry alone
FirstSeenWon(o, store) ==
    LET first == FirstOf(o.order, Tops(o))
    IN  /\ o.from = first
        /\ o.res = PayloadAt(o.pre, first)
        /\ DOMAIN store = DOMAIN o.pre
        /\ \A k \in DOMAIN store \ {first} : store[k] = o.pre[k]
        /\ UsageAt(store, first) = UsageAt(o.pre, first) + 1
        /\ LastUsedAt(store, first) = o.at
        /\ store[first].exp = o.at + TTL_DAYS

\* C34: when several valid entries of the partition share the maximum
\* similarity and it exceeds the threshold, the lookup returns the one
\* enumerated first, and only that entry has its usage_count, last_used_at
\* and TTL updated
C34_FirstSeen == TieAbove(last) => FirstSeenWon(last, kv)

\* the same for a maximum above zero, where the scan's initial best of 0.0
\* does not hide the entries
C34_FirstSeenAboveZero ==
    (TieAbove(last) /\ \E k \in Tops(last) : Greater(SimilarityAt(last.pre, last, k), Zero))
        => FirstSeenWon(last, kv)

\* C35: once a cleanup sweep has deleted an entry, or its TTL has expired,
\* its key stays absent until a store writes that key again: the write-back
\* of a concurrent lookup's hit never re-creates a removed entry
C35_NoResurrection ==
    last.op = "find" => DOMAIN kv \subseteq DOMAIN last.pre

\* C36: in the result of store_file_with_chunks, cached_chunks never exceeds
\* total_chunks, and cached_chunks is the number of distinct entries the
\* call left in the store
C36_ChunkCounts ==
    last.op = "file" =>
        /\ last.cached_chunks <= last.total_chunks
        /\ last.f = NoFault =>
              last.cached_chunks = Cardinality(IF client THEN KeysWritten(last) ELSE {})

\* the first half alone
C36_AtMostTotal == last.op = "file" => last.cached_chunks <= last.total_chunks

\* the second half alone
C36_CountsEntries ==
    (last.op = "file" /\ client /\ last.f = NoFault) =>
        last.cached_chunks = Cardinality(KeysWritten(last))

\* the lines of chunk j of operation o
ChunkRun(o, j) == Split(o.chunks[j][2])

\* starts places every chunk of operation o on a run of input lines equal
\* to it, no input line under two chunks
Placed(o, starts) ==
    LET lines == Split(o.content)
        Run(j) == starts[j]..(starts[j] + Len(ChunkRun(o, j)) - 1)
    IN  /\ \A j \in DOMAIN o.chunks :
              /\ starts[j] + Len(ChunkRun(o, j)) - 1 <= Len(lines)
              /\ SubSeq(lines, starts[j], starts[j] + Len(ChunkRun(o, j)) - 1) = ChunkRun(o, j)
        /\ \A j, k \in DOMAIN o.chunks : j # k => Run(j) \cap Run(k) = {}

\* C39: python chunking places each input line in at most one chunk, and
\* every chunk is a contiguous run of input lines in source order that
\* begins with the def or class line that opened it
C39_ContiguousChunks ==
    (last.op = "extract" /\ last.language = "python"
        /\ HasBoundary(last.content, "python")) =>
        /\ \E starts \in [DOMAIN last.chunks -> 1..Len(Split(last.content))] :
              Placed(last, starts)
        /\ \A j \in DOMAIN last.chunks : Opens(ChunkRun(last, j)[1], "python")

\* the second half alone: every chunk begins with a def or class line
C39_BeginsWithOpener ==
    (last.op = "extract" /\ last.language = "python"
        /\ HasBoundary(last.content, "python")) =>
        \A j \in DOMAIN last.chunks : Opens(ChunkRun(last, j)[1], "python")


====
